---- MODULE Spec2Model ----
(***************************************************************************)
(* Contact Management App (src/App.js): the in-memory mock API, the form    *)
(* state of ContactManagementApp, its validators and its event handlers.    *)
(*                                                                          *)
(* Strings the validators inspect are sequences of one-character strings,   *)
(* so that trim() and the two regular expressions are computed.             *)
(* Every await in the source waits on a setTimeout; a timer never fires     *)
(* before its delay has elapsed.  The promise continuation that follows a   *)
(* timer runs in the same task as the timer callback, so the store update   *)
(* and the handler's state updates that follow it form one step.            *)
(* The clock moves in steps of TickMs and a due timer fires before the      *)
(* clock moves on, so timers fire in the order of their deadlines.          *)
(* The model follows one mounted component from the load of the module.     *)
(***************************************************************************)
EXTENDS Integers, Sequences, FiniteSets, Bags, TLC

VARIABLES
    apiContacts,   \* API.contacts
    formData,      \* useState formData
    errors,        \* useState errors: a map from some field names to messages
    contacts,      \* useState contacts: the displayed list
    loading,       \* useState loading
    submitting,    \* useState submitting
    now,           \* the clock Date.now() reads, in milliseconds
    fetchCall,     \* getContacts timers pending: a bag of [deadline]
    createCalls,   \* createContact timers pending: a bag of [data, deadline]
    deleteCalls,   \* deleteContact timers pending: a bag of [id, deadline]
    lastEvent      \* history: the handler step taken last

vars == <<apiContacts, formData, errors, contacts, loading, submitting, now,
          fetchCall, createCalls, deleteCalls, lastEvent>>

----------------------------------------------------------------------------
(* Bounds of the exploration.  Spec follows the list through two creates    *)
(* with a few drafts; FormSpec follows every draft through one create.      *)

MaxTicks == 11
FormMaxTicks == 8
MaxDeletes == 2

(* Program constants *)

CreateDelay == 500
ListDelay == 300
DeleteDelay == 300
MinNameLen == 2
MinPhoneLen == 10

TickMs == 100
MaxClock == MaxTicks * TickMs
FormMaxClock == FormMaxTicks * TickMs

----------------------------------------------------------------------------
(* Strings *)

Space == {" "}
Digits == {"0", "1", "2", "3", "4", "5", "6", "7", "8", "9"}
PhoneChars == Digits \cup Space \cup {"-", "+", "(", ")"}

RECURSIVE TrimLeft(_)
TrimLeft(s) ==
    IF s # <<>> /\ Head(s) \in Space THEN TrimLeft(Tail(s)) ELSE s

RECURSIVE TrimRight(_)
TrimRight(s) ==
    IF s # <<>> /\ s[Len(s)] \in Space
    THEN TrimRight(SubSeq(s, 1, Len(s) - 1))
    ELSE s

Trim(s) == TrimRight(TrimLeft(s))

(* /^[^\s@]+@[^\s@]+\.[^\s@]+$/ *)
validateEmail(email) ==
    \E i \in 1..Len(email) : \E j \in 1..Len(email) :
        /\ email[i] = "@"
        /\ email[j] = "."
        /\ i >= 2
        /\ j >= i + 2
        /\ j <= Len(email) - 1
        /\ \A k \in 1..Len(email) : k # i => email[k] \notin (Space \cup {"@"})

(* /^[\d\s\-\+\(\)]{10,}$/ *)
validatePhone(phone) ==
    /\ Len(phone) >= MinPhoneLen
    /\ \A k \in 1..Len(phone) : phone[k] \in PhoneChars

----------------------------------------------------------------------------
(* Error maps *)

NameRequired == "Name is required"
NameTooShort == "Name must be at least 2 characters"
EmailRequired == "Email is required"
EmailInvalid == "Please enter a valid email address"
PhoneRequired == "Phone number is required"
PhoneInvalid == "Please enter a valid phone number (at least 10 digits)"

NoErrors == [k \in {} |-> ""]

SetKey(e, k, v) == [x \in (DOMAIN e) \cup {k} |-> IF x = k THEN v ELSE e[x]]

DeleteKey(e, k) == [x \in (DOMAIN e) \ {k} |-> e[x]]

(* The rule of one field: "" when the field passes. *)

(* NameRule without the minimum length *)
NameRuleNoMinimum(fd) ==
    IF Trim(fd.name) = <<>> THEN NameRequired ELSE ""

NameRule(fd) ==
    IF Trim(fd.name) = <<>> THEN NameRequired
    ELSE IF Len(Trim(fd.name)) < MinNameLen THEN NameTooShort
    ELSE ""

EmailRule(fd) ==
    IF Trim(fd.email) = <<>> THEN EmailRequired
    ELSE IF ~validateEmail(fd.email) THEN EmailInvalid
    ELSE ""

PhoneRule(fd) ==
    IF Trim(fd.phone) = <<>> THEN PhoneRequired
    ELSE IF ~validatePhone(fd.phone) THEN PhoneInvalid
    ELSE ""

FieldRule(fd, field) ==
    CASE field = "name" -> NameRule(fd)
      [] field = "email" -> EmailRule(fd)
      [] field = "phone" -> PhoneRule(fd)

ValidatedFields == {"name", "email", "phone"}

(* newErrors of validateForm: a key for each field whose rule fails *)
validateFormErrors(fd) ==
    [f \in {g \in ValidatedFields : FieldRule(fd, g) # ""} |-> FieldRule(fd, f)]

(* the value validateForm returns *)
validateForm(fd) == DOMAIN validateFormErrors(fd) = {}

(* isFormValid without the email check *)
isFormValidNoEmail(fd, errs) ==
    /\ Trim(fd.name) # <<>>
    /\ validatePhone(fd.phone)
    /\ DOMAIN errs = {}

isFormValid(fd, errs) ==
    /\ Trim(fd.name) # <<>>
    /\ validateEmail(fd.email)
    /\ validatePhone(fd.phone)
    /\ DOMAIN errs = {}

(* the submit button left enabled during a submission *)
SubmitEnabledWhileSubmitting == isFormValid(formData, errors)

(* disabled={!isFormValid || submitting} *)
SubmitEnabled == isFormValid(formData, errors) /\ ~submitting

----------------------------------------------------------------------------
(* The mock API *)

EmptyForm == [name |-> <<>>, email |-> <<>>, phone |-> <<>>, message |-> <<>>]

NewContact(contactData, clock) ==
    [_id |-> ToString(clock),
     name |-> contactData.name,
     email |-> contactData.email,
     phone |-> contactData.phone,
     message |-> contactData.message,
     createdAt |-> clock]

RECURSIVE Reverse(_)
Reverse(s) == IF s = <<>> THEN <<>> ELSE Append(Reverse(Tail(s)), Head(s))

(* getContacts without reverse() *)
getContactsDataUnreversed(store) == store

(* data of getContacts' response *)
getContactsData(store) == Reverse(store)

RECURSIVE FilterOutId(_, _)
FilterOutId(s, id) ==
    IF s = <<>> THEN <<>>
    ELSE IF Head(s)._id # id THEN <<Head(s)>> \o FilterOutId(Tail(s), id)
    ELSE FilterOutId(Tail(s), id)

(* deleteContact with the filter's test inverted *)
deleteContactStoreInverted(store, id) ==
    SelectSeq(store, LAMBDA c : c._id = id)

(* API.contacts after deleteContact(id) *)
deleteContactStore(store, id) == FilterOutId(store, id)

(* the value deleteContact returns *)
deleteContactResult(store, id) == [success |-> TRUE]

One(x) == SetToBag({x})

Ids(s) == {s[i]._id : i \in 1..Len(s)}

----------------------------------------------------------------------------
(* Inputs: the values a change event can carry, per field *)

Short == <<" ", "J">>
Jo == <<"J", "o">>
NoDomain == <<"a", "@", "b">>
Address == <<"a", "@", "b", ".", "c">>
NineDigits == <<"1", "2", "3", "4", "5", "6", "7", "8", "9">>
TenDigits == <<"1", "2", "3", "4", "5", "6", "7", "8", "9", "0">>
TenSpaces == <<" ", " ", " ", " ", " ", " ", " ", " ", " ", " ">>
Hi == <<"h", "i">>

ListValues ==
    [name |-> {Short, Jo},
     email |-> {Address},
     phone |-> {TenDigits},
     message |-> {}]

FormValues ==
    [name |-> {Short, Jo},
     email |-> {NoDomain, Address},
     phone |-> {NineDigits, TenDigits, TenSpaces},
     message |-> {Hi}]

Fields == {"name", "email", "phone", "message"}

----------------------------------------------------------------------------
(* State after the first render and its mount effect: the useState initial  *)
(* values, then fetchContacts has set loading and called API.getContacts.   *)

Init ==
    /\ apiContacts = <<>>
    /\ formData = EmptyForm
    /\ errors = NoErrors
    /\ contacts = <<>>
    /\ loading = TRUE
    /\ submitting = FALSE
    /\ now = 0
    /\ fetchCall = One([deadline |-> ListDelay])
    /\ createCalls = EmptyBag
    /\ deleteCalls = EmptyBag
    /\ lastEvent = "mount"

Due(calls) == \E call \in BagToSet(calls) : call.deadline <= now

(* Time passes; a timer that is due fires before the clock moves on. *)
Tick(horizon) ==
    /\ now + TickMs <= horizon
    /\ ~Due(fetchCall)
    /\ ~Due(createCalls)
    /\ ~Due(deleteCalls)
    /\ now' = now + TickMs
    /\ lastEvent' = "tick"
    /\ UNCHANGED <<apiContacts, formData, errors, contacts, loading, submitting,
                   fetchCall, createCalls, deleteCalls>>

(* fetchContacts without its finally block *)
FetchContactsDoneKeepsLoading ==
    \E call \in BagToSet(fetchCall) :
        /\ now >= call.deadline
        /\ fetchCall' = fetchCall (-) One(call)
        /\ contacts' = getContactsData(apiContacts)
        /\ lastEvent' = "fetchDone"
        /\ UNCHANGED <<apiContacts, formData, errors, loading, submitting, now,
                       createCalls, deleteCalls>>

(* fetchContacts resumes after API.getContacts *)
FetchContactsDone ==
    \E call \in BagToSet(fetchCall) :
        /\ now >= call.deadline
        /\ fetchCall' = fetchCall (-) One(call)
        /\ contacts' = getContactsData(apiContacts)
        /\ loading' = FALSE
        /\ lastEvent' = "fetchDone"
        /\ UNCHANGED <<apiContacts, formData, errors, submitting, now,
                       createCalls, deleteCalls>>

handleChange(field, value) ==
    /\ value # formData[field]
    /\ formData' = [formData EXCEPT ![field] = value]
    /\ errors' = IF field \in DOMAIN errors /\ errors[field] # ""
                 THEN SetKey(errors, field, "")
                 ELSE errors
    /\ lastEvent' = IF field \in DOMAIN errors /\ errors[field] # ""
                    THEN "changeCleared" ELSE "change"
    /\ UNCHANGED <<apiContacts, contacts, loading, submitting, now,
                   fetchCall, createCalls, deleteCalls>>

handleBlur(field) ==
    /\ errors' = IF FieldRule(formData, field) # ""
                 THEN SetKey(errors, field, FieldRule(formData, field))
                 ELSE DeleteKey(errors, field)
    /\ lastEvent' = "blur"
    /\ UNCHANGED <<apiContacts, formData, contacts, loading, submitting, now,
                   fetchCall, createCalls, deleteCalls>>

(* a click on the submit button whose draft validateForm rejects *)
handleSubmitRejected ==
    /\ SubmitEnabled
    /\ ~validateForm(formData)
    /\ errors' = validateFormErrors(formData)
    /\ lastEvent' = "submitRejected"
    /\ UNCHANGED <<apiContacts, formData, contacts, loading, submitting, now,
                   fetchCall, createCalls, deleteCalls>>

(* handleSubmit without setSubmitting(true) *)
handleSubmitCallNoFlag(horizon) ==
    /\ SubmitEnabled
    /\ validateForm(formData)
    /\ now + CreateDelay <= horizon
    /\ errors' = validateFormErrors(formData)
    /\ createCalls' = createCalls (+)
                        One([data |-> formData, deadline |-> now + CreateDelay])
    /\ lastEvent' = "submitCall"
    /\ UNCHANGED <<apiContacts, formData, contacts, loading, submitting, now,
                   fetchCall, deleteCalls>>

(* a click on the submit button up to the await of API.createContact *)
handleSubmitCall(horizon) ==
    /\ SubmitEnabled
    /\ validateForm(formData)
    /\ now + CreateDelay <= horizon
    /\ errors' = validateFormErrors(formData)
    /\ submitting' = TRUE
    /\ createCalls' = createCalls (+)
                        One([data |-> formData, deadline |-> now + CreateDelay])
    /\ lastEvent' = "submitCall"
    /\ UNCHANGED <<apiContacts, formData, contacts, loading, now,
                   fetchCall, deleteCalls>>

handleSubmit(horizon) == handleSubmitRejected \/ handleSubmitCall(horizon)

CreatedEvent(call) ==
    IF formData # call.data \/ DOMAIN errors # {}
    THEN "createDoneEdited" ELSE "createDone"

(* handleSubmit without the form reset *)
CreateContactDoneKeepsDraft ==
    \E call \in BagToSet(createCalls) :
        /\ now >= call.deadline
        /\ createCalls' = createCalls (-) One(call)
        /\ apiContacts' = Append(apiContacts, NewContact(call.data, now))
        /\ contacts' = <<NewContact(call.data, now)>> \o contacts
        /\ submitting' = FALSE
        /\ lastEvent' = CreatedEvent(call)
        /\ UNCHANGED <<formData, errors, loading, now, fetchCall, deleteCalls>>

(* handleSubmit adding the new contact at the end of the displayed list *)
CreateContactDoneAppends ==
    \E call \in BagToSet(createCalls) :
        /\ now >= call.deadline
        /\ createCalls' = createCalls (-) One(call)
        /\ apiContacts' = Append(apiContacts, NewContact(call.data, now))
        /\ contacts' = Append(contacts, NewContact(call.data, now))
        /\ formData' = EmptyForm
        /\ errors' = NoErrors
        /\ submitting' = FALSE
        /\ lastEvent' = CreatedEvent(call)
        /\ UNCHANGED <<loading, now, fetchCall, deleteCalls>>

(* createContact after its timer, then the rest of handleSubmit *)
CreateContactDone ==
    \E call \in BagToSet(createCalls) :
        /\ now >= call.deadline
        /\ createCalls' = createCalls (-) One(call)
        /\ apiContacts' = Append(apiContacts, NewContact(call.data, now))
        /\ contacts' = <<NewContact(call.data, now)>> \o contacts
        /\ formData' = EmptyForm
        /\ errors' = NoErrors
        /\ submitting' = FALSE
        /\ lastEvent' = CreatedEvent(call)
        /\ UNCHANGED <<loading, now, fetchCall, deleteCalls>>

(* a click on the delete button of a displayed contact *)
handleDelete(id, horizon) ==
    /\ ~loading
    /\ id \in Ids(contacts)
    /\ BagCardinality(deleteCalls) < MaxDeletes
    /\ now + DeleteDelay <= horizon
    /\ deleteCalls' = deleteCalls (+)
                        One([id |-> id, deadline |-> now + DeleteDelay])
    /\ lastEvent' = "deleteCall"
    /\ UNCHANGED <<apiContacts, formData, errors, contacts, loading, submitting,
                   now, fetchCall, createCalls>>

(* deleteContact after its timer, then the rest of handleDelete *)
DeleteContactDone ==
    \E call \in BagToSet(deleteCalls) :
        /\ now >= call.deadline
        /\ deleteCalls' = deleteCalls (-) One(call)
        /\ apiContacts' = deleteContactStore(apiContacts, call.id)
        /\ contacts' = FilterOutId(contacts, call.id)
        /\ lastEvent' = IF call.id \in Ids(apiContacts)
                        THEN "deleteDone" ELSE "deleteAbsent"
        /\ UNCHANGED <<formData, errors, loading, submitting, now,
                       fetchCall, createCalls>>

Step(values, horizon) ==
    \/ Tick(horizon)
    \/ FetchContactsDone
    \/ \E field \in Fields : \E value \in values[field] :
           handleChange(field, value)
    \/ \E field \in ValidatedFields : handleBlur(field)
    \/ handleSubmit(horizon)
    \/ CreateContactDone
    \/ \E id \in Ids(contacts) : handleDelete(id, horizon)
    \/ DeleteContactDone

Next == Step(ListValues, MaxClock)

Spec == Init /\ [][Next]_vars

FormNext == Step(FormValues, FormMaxClock)

FormSpec == Init /\ [][FormNext]_vars

(* Timers fire and time passes. *)
LiveSpec ==
    /\ Spec
    /\ WF_vars(Tick(MaxClock))
    /\ WF_vars(FetchContactsDone)
    /\ WF_vars(CreateContactDone)
    /\ WF_vars(DeleteContactDone)

----------------------------------------------------------------------------
(* Properties *)

Created == lastEvent \in {"createDone", "createDoneEdited"}

ContactValid(c) ==
    /\ Len(Trim(c.name)) >= MinNameLen
    /\ validateEmail(c.email)
    /\ validatePhone(c.phone)

(* C1: the store only receives validated drafts.  Every createContact call  *)
(* in flight carries a draft validateForm accepts, the call just issued     *)
(* carries the draft being submitted, a rejected submit leaves no call in   *)
(* flight and the store as it was, and every stored contact has a trimmed   *)
(* name of length >= 2, a valid email and a valid phone.                    *)
C1_ValidatedDraftsOnly ==
    /\ \A call \in BagToSet(createCalls) :
           validateForm(call.data) /\ ContactValid(call.data)
    /\ lastEvent = "submitCall" =>
           \E call \in BagToSet(createCalls) : call.data = formData
    /\ lastEvent = "submitRejected" =>
           ~validateForm(formData) /\ createCalls = EmptyBag /\ ~submitting
    /\ \A i \in 1..Len(apiContacts) : ContactValid(apiContacts[i])

(* a submit click on a draft whose trimmed name has one character was      *)
(* rejected, and the store has received nothing                             *)
C1_Witness ==
    /\ lastEvent = "submitRejected"
    /\ Len(Trim(formData.name)) = 1
    /\ errors = [name |-> NameTooShort]
    /\ createCalls = EmptyBag
    /\ apiContacts = <<>>

(* C2: getContacts returns the whole collection, newest first; right after *)
(* a create the created contact is listed exactly once, at the head.        *)
C2_ListNewestFirst ==
    LET list == getContactsData(apiContacts) IN
    /\ Len(list) = Len(apiContacts)
    /\ \A i \in 1..Len(apiContacts) : \E j \in 1..Len(list) :
           list[j] = apiContacts[i]
    /\ \A i \in 1..Len(list) : \A j \in 1..Len(list) :
           i < j => list[i].createdAt > list[j].createdAt
    /\ Created =>
           /\ list # <<>>
           /\ list[1] = contacts[1]
           /\ Cardinality({i \in 1..Len(list) : list[i] = contacts[1]}) = 1

(* the second of two sequential creates has completed *)
C2_Witness ==
    /\ Created
    /\ Len(apiContacts) = 2

DeleteCompleted(call) == CopiesIn(call, deleteCalls') < CopiesIn(call, deleteCalls)

(* C3: deleteContact is idempotent.  Each completing call succeeds, leaves  *)
(* no entry with its id in the store or in the listing, keeps every other   *)
(* entry in place, changes nothing when the id is already absent, and a     *)
(* further call with the same id would change nothing.                      *)
C3_DeleteIdempotent ==
    [][\A call \in BagToSet(deleteCalls) :
          DeleteCompleted(call) =>
              /\ deleteContactResult(apiContacts, call.id).success
              /\ call.id \notin Ids(apiContacts')
              /\ call.id \notin Ids(getContactsData(apiContacts'))
              /\ apiContacts' = SelectSeq(apiContacts, LAMBDA c : c._id # call.id)
              /\ (call.id \notin Ids(apiContacts) => apiContacts' = apiContacts)
              /\ deleteContactResult(apiContacts', call.id).success
              /\ deleteContactStore(apiContacts', call.id) = apiContacts']_vars

(* a second deleteContact for an id already removed has completed while    *)
(* another contact is stored                                                *)
C3_Witness ==
    /\ lastEvent = "deleteAbsent"
    /\ Len(apiContacts) = 1

(* C4: no two contacts in the store have the same _id. *)
C4_UniqueIds ==
    \A i \in 1..Len(apiContacts) : \A j \in 1..Len(apiContacts) :
        i # j => apiContacts[i]._id # apiContacts[j]._id

(* two contacts are stored *)
C4_Witness ==
    /\ Len(apiContacts) = 2
    /\ apiContacts[1]._id # apiContacts[2]._id

(* C5 as claimed: at most one createContact or deleteContact call is in    *)
(* flight.                                                                  *)
C5_OneMutationInFlight ==
    BagCardinality(createCalls) + BagCardinality(deleteCalls) <= 1

(* C5 amended: at most one createContact call is in flight, and submitting *)
(* is set exactly while it is.                                              *)
C5_OneCreateInFlight ==
    /\ BagCardinality(createCalls) <= 1
    /\ submitting <=> createCalls # EmptyBag

(* a create and two deletes are in flight together *)
C5_Witness ==
    /\ BagCardinality(createCalls) = 1
    /\ BagCardinality(deleteCalls) = 2

View ==
    IF loading THEN "Loading"
    ELSE IF Len(contacts) = 0 THEN "Empty"
    ELSE "Populated"

FetchOutstanding == fetchCall # EmptyBag

FetchCompletes == BagCardinality(fetchCall') < BagCardinality(fetchCall)

CreateCompletes == BagCardinality(createCalls') < BagCardinality(createCalls)

DeleteCompletes == BagCardinality(deleteCalls') < BagCardinality(deleteCalls)

C7_ChangeRemovesError ==
    [][lastEvent' = "changeCleared" =>
          \A f \in ValidatedFields :
              IF formData'[f] # formData[f]
              THEN f \notin DOMAIN errors'
              ELSE /\ (f \in DOMAIN errors') = (f \in DOMAIN errors)
                   /\ f \in DOMAIN errors => errors'[f] = errors[f]]_vars

(* C8 as claimed: validateForm accepts the draft exactly when isFormValid  *)
(* holds.                                                                   *)
C8_ValidIffSubmittable ==
    validateForm(formData) <=> isFormValid(formData, errors)

(* C8 amended: a draft validateForm accepts is submittable when the error  *)
(* map has no key; a submittable draft has a valid email and validateForm   *)
(* can only reject it for a one-character name or a blank phone.            *)
C8_ValidVersusSubmittable ==
    /\ validateForm(formData) /\ DOMAIN errors = {} =>
           isFormValid(formData, errors)
    /\ isFormValid(formData, errors) =>
           LET found == validateFormErrors(formData) IN
           /\ DOMAIN found \subseteq {"name", "phone"}
           /\ "name" \in DOMAIN found => found.name = NameTooShort
           /\ "phone" \in DOMAIN found => found.phone = PhoneRequired

(* the button is enabled for a draft validateForm rejects *)
C8_Witness ==
    /\ SubmitEnabled
    /\ ~validateForm(formData)
    /\ formData.phone = TenSpaces

(* C9: a submission in flight keeps submitting set until its create        *)
(* completes, it does complete, and the completing step leaves submitting   *)
(* false, the four fields empty and the error map empty.                    *)
C9_SubmissionCompletes ==
    /\ submitting ~> (Created /\ ~submitting)
    /\ [][CreateCompletes =>
             ~submitting' /\ formData' = EmptyForm /\ errors' = NoErrors]_vars
    /\ [][submitting /\ ~CreateCompletes => submitting']_vars

(* a create has completed over a draft edited while it was in flight *)
C9_Witness ==
    /\ lastEvent = "createDoneEdited"
    /\ ~submitting
    /\ formData = EmptyForm
    /\ errors = NoErrors

(* C10: once the mount fetch has completed and no create or delete is in   *)
(* flight, the displayed list is the store's collection, newest first.      *)
C10_ListSynchronized ==
    (~FetchOutstanding /\ createCalls = EmptyBag /\ deleteCalls = EmptyBag) =>
        contacts = getContactsData(apiContacts)

(* two creates and a delete have completed and nothing is in flight *)
C10_Witness ==
    /\ ~FetchOutstanding
    /\ createCalls = EmptyBag
    /\ deleteCalls = EmptyBag
    /\ Len(contacts) = 1
    /\ contacts[1].createdAt > CreateDelay

====
